---- MODULE Spec2Model ----
(***************************************************************************)
(* Connect 4 console game: board helpers, win detection, the heuristic     *)
(* scorer, the minimax search and the play_game loop of                    *)
(* src/ai_studio_code.py.                                                  *)
(*                                                                         *)
(* Python lists are objects: a board handed to a function is a reference.  *)
(* The model keeps a heap (a sequence of boards) and passes references     *)
(* (indices into it), so that copy.deepcopy and drop_piece act as they do  *)
(* in the program.                                                         *)
(***************************************************************************)
EXTENDS Integers, Sequences, FiniteSets, TLC

ROW_COUNT == 6
COLUMN_COUNT == 7
SEARCH_DEPTH == 4

PLAYER_PIECE == "X"
AI_PIECE == "O"
EMPTY == "-"

\* Python's None: the column slot of minimax's result at a leaf, the value
\* get_next_open_row falls through to, and a local not yet assigned.
None == -1

\* Scores.  Python integers are unbounded and the win scores (10^14, 10^13)
\* exceed TLC's 32-bit integers, so a score is written exactly in
\* base 10^13 as <<inf, hi, lo>>, standing for hi * 10^13 + lo with
\* |lo| < 10^13, and inf = 1 / -1 for math.inf / -math.inf (inf = 0 for
\* every integer).  Order is the order of the numbers written.
Num(hi, lo) == <<0, hi, lo>>
math_inf == <<1, 0, 0>>
minus_math_inf == <<-1, 0, 0>>

\* a > b written out; also the comparison of the maximizing branch pasted
\* into the minimizing one
Above(a, b) ==
    \/ a[1] > b[1]
    \/ a[1] = b[1] /\ a[2] > b[2]
    \/ a[1] = b[1] /\ a[2] = b[2] /\ a[3] > b[3]

\* a >= b: a comparison that lets a later tie replace the incumbent
AtLeast(a, b) == a = b \/ Above(a, b)

\* new_score < value
Less(a, b) ==
    \/ a[1] < b[1]
    \/ a[1] = b[1] /\ a[2] < b[2]
    \/ a[1] = b[1] /\ a[2] = b[2] /\ a[3] < b[3]

\* new_score > value
Greater(a, b) ==
    \/ b[1] < a[1]
    \/ b[1] = a[1] /\ b[2] < a[2]
    \/ b[1] = a[1] /\ b[2] = a[2] /\ b[3] < a[3]

Rows == 0 .. (ROW_COUNT - 1)
Cols == 0 .. (COLUMN_COUNT - 1)

\* range(n)
range(n) == 0 .. (n - 1)

create_board == [r \in Rows |-> [c \in Cols |-> EMPTY]]

\* board[row][col] = piece
drop_piece(b, r, c, piece) == [b EXCEPT ![r][c] = piece]

is_valid_location(b, c) == b[ROW_COUNT - 1][c] = EMPTY

\* A scan from the top row downward: the highest empty row, not the lowest.
get_next_open_row_from_top(b, c) ==
    IF \E r \in range(ROW_COUNT) : b[r][c] = EMPTY
    THEN CHOOSE r \in range(ROW_COUNT) :
            /\ b[r][c] = EMPTY
            /\ \A q \in range(ROW_COUNT) : q > r => b[q][c] # EMPTY
    ELSE None

\* The first r of range(ROW_COUNT) with an empty cell; None when the loop
\* falls through (Python returns None implicitly).
get_next_open_row(b, c) ==
    IF \E r \in range(ROW_COUNT) : b[r][c] = EMPTY
    THEN CHOOSE r \in range(ROW_COUNT) :
            /\ b[r][c] = EMPTY
            /\ \A q \in range(ROW_COUNT) : q < r => b[q][c] # EMPTY
    ELSE None

RECURSIVE valid_from(_, _)
valid_from(b, c) ==
    IF c >= COLUMN_COUNT THEN <<>>
    ELSE IF is_valid_location(b, c)
         THEN <<c>> \o valid_from(b, c + 1)
         ELSE valid_from(b, c + 1)

\* Ascending list of the columns whose top cell is empty.
get_valid_locations(b) == valid_from(b, 0)

\* winning_move with the horizontal loop left out
winning_move_without_horizontal(b, piece) ==
    \/ \E c \in range(COLUMN_COUNT), r \in range(ROW_COUNT - 3) :
          /\ b[r][c] = piece /\ b[r+1][c] = piece
          /\ b[r+2][c] = piece /\ b[r+3][c] = piece
    \/ \E c \in range(COLUMN_COUNT - 3), r \in range(ROW_COUNT - 3) :
          /\ b[r][c] = piece /\ b[r+1][c+1] = piece
          /\ b[r+2][c+2] = piece /\ b[r+3][c+3] = piece
    \/ \E c \in range(COLUMN_COUNT - 3), r \in 3 .. (ROW_COUNT - 1) :
          /\ b[r][c] = piece /\ b[r-1][c+1] = piece
          /\ b[r-2][c+2] = piece /\ b[r-3][c+3] = piece

\* winning_move with every loop over range(... - 4): the windows that touch
\* the last column or the top row are never looked at
winning_move_short_ranges(b, piece) ==
    \/ \E c \in range(COLUMN_COUNT - 4), r \in range(ROW_COUNT) :
          /\ b[r][c] = piece /\ b[r][c+1] = piece
          /\ b[r][c+2] = piece /\ b[r][c+3] = piece
    \/ \E c \in range(COLUMN_COUNT), r \in range(ROW_COUNT - 4) :
          /\ b[r][c] = piece /\ b[r+1][c] = piece
          /\ b[r+2][c] = piece /\ b[r+3][c] = piece
    \/ \E c \in range(COLUMN_COUNT - 4), r \in range(ROW_COUNT - 4) :
          /\ b[r][c] = piece /\ b[r+1][c+1] = piece
          /\ b[r+2][c+2] = piece /\ b[r+3][c+3] = piece
    \/ \E c \in range(COLUMN_COUNT - 4), r \in 3 .. (ROW_COUNT - 1) :
          /\ b[r][c] = piece /\ b[r-1][c+1] = piece
          /\ b[r-2][c+2] = piece /\ b[r-3][c+3] = piece

\* The four loops of winning_move: horizontal, vertical, positively sloped
\* and negatively sloped diagonals.
winning_move(b, piece) ==
    \/ \E c \in range(COLUMN_COUNT - 3), r \in range(ROW_COUNT) :
          /\ b[r][c] = piece /\ b[r][c+1] = piece
          /\ b[r][c+2] = piece /\ b[r][c+3] = piece
    \/ \E c \in range(COLUMN_COUNT), r \in range(ROW_COUNT - 3) :
          /\ b[r][c] = piece /\ b[r+1][c] = piece
          /\ b[r+2][c] = piece /\ b[r+3][c] = piece
    \/ \E c \in range(COLUMN_COUNT - 3), r \in range(ROW_COUNT - 3) :
          /\ b[r][c] = piece /\ b[r+1][c+1] = piece
          /\ b[r+2][c+2] = piece /\ b[r+3][c+3] = piece
    \/ \E c \in range(COLUMN_COUNT - 3), r \in 3 .. (ROW_COUNT - 1) :
          /\ b[r][c] = piece /\ b[r-1][c+1] = piece
          /\ b[r-2][c+2] = piece /\ b[r-3][c+3] = piece

\* is_terminal_node that only looks for a full board
is_terminal_node_full_board_only(b) == Len(get_valid_locations(b)) = 0

is_terminal_node(b) ==
    \/ winning_move(b, PLAYER_PIECE)
    \/ winning_move(b, AI_PIECE)
    \/ Len(get_valid_locations(b)) = 0

\* window.count(x) for a window given as a sequence of cells
count(window, x) == Cardinality({i \in DOMAIN window : window[i] = x})

evaluate_window(window, piece) ==
    LET opp_piece == IF piece = PLAYER_PIECE THEN AI_PIECE ELSE PLAYER_PIECE
        n == count(window, piece)
        e == count(window, EMPTY)
        own == IF n = 4 THEN 100
               ELSE IF n = 3 /\ e = 1 THEN 5
               ELSE IF n = 2 /\ e = 2 THEN 2
               ELSE 0
    IN IF count(window, opp_piece) = 3 /\ e = 1 THEN own - 4 ELSE own

\* Every window is a slice or a comprehension of WINDOW_LENGTH = 4 cells,
\* written out here cell by cell.
score_position(b, piece) ==
    LET \* sum of f(i) for i in range(n): the "score += ..." of a for loop
        RECURSIVE SumRange(_, _)
        SumRange(f(_), n) == IF n = 0 THEN 0 ELSE SumRange(f, n - 1) + f(n - 1)
        center_array == [i \in 1 .. ROW_COUNT |-> b[i - 1][COLUMN_COUNT \div 2]]
        center_count == count(center_array, piece)
        horizontal(r) == SumRange(LAMBDA c :
            evaluate_window(<<b[r][c], b[r][c+1], b[r][c+2], b[r][c+3]>>, piece),
            COLUMN_COUNT - 3)
        vertical(c) == SumRange(LAMBDA r :
            evaluate_window(<<b[r][c], b[r+1][c], b[r+2][c], b[r+3][c]>>, piece),
            ROW_COUNT - 3)
        positive(r) == SumRange(LAMBDA c :
            evaluate_window(<<b[r][c], b[r+1][c+1], b[r+2][c+2], b[r+3][c+3]>>, piece),
            COLUMN_COUNT - 3)
        negative(r) == SumRange(LAMBDA c :
            evaluate_window(<<b[r+3][c], b[r+2][c+1], b[r+1][c+2], b[r][c+3]>>, piece),
            COLUMN_COUNT - 3)
    IN center_count * 3
       + SumRange(horizontal, ROW_COUNT)
       + SumRange(vertical, COLUMN_COUNT)
       + SumRange(positive, ROW_COUNT - 3)
       + SumRange(negative, ROW_COUNT - 3)

\* b_copy = board: a second name for the same object, no copy made
deepcopy_alias(heap, ref) == [heap |-> heap, ref |-> ref]

\* copy.deepcopy(board): a new object on the heap holding the same cells.
deepcopy(heap, ref) == [heap |-> Append(heap, heap[ref]), ref |-> Len(heap) + 1]

\* random.choice(valid_locations); seed stands for the generator's draw.
random_choice(valid_locations, seed) ==
    valid_locations[(seed % Len(valid_locations)) + 1]

\* minimax(board, depth, maximizingPlayer) returns (column, score); the
\* model's result also carries the heap as the call leaves it.  The board is
\* heap[ref]; seed stands for the draws of random.choice.  The two branches
\* of the source differ in the piece dropped, the starting value and the
\* comparison, and are folded into one loop here.
RECURSIVE minimax(_, _, _, _, _)
minimax(heap, ref, depth, maximizingPlayer, seed) ==
    LET valid_locations == get_valid_locations(heap[ref])
        is_terminal == is_terminal_node(heap[ref])
        \* one pass of the for loop over valid_locations, from the loop state
        \* st = (column, value, heap) the passes before it left
        iteration(st, col) ==
            LET row == get_next_open_row(st.heap[ref], col)
                b_copy == deepcopy(st.heap, ref)
                dropped == [b_copy.heap EXCEPT ![b_copy.ref] =
                               drop_piece(b_copy.heap[b_copy.ref], row, col,
                                          IF maximizingPlayer THEN AI_PIECE
                                                              ELSE PLAYER_PIECE)]
                rec == minimax(dropped, b_copy.ref, depth - 1, ~maximizingPlayer, seed)
                \* b_copy is rebound by the next pass: the copy is garbage
                kept == SubSeq(rec.heap, 1, Len(st.heap))
            IN IF (IF maximizingPlayer THEN Greater(rec.score, st.score)
                                       ELSE Less(rec.score, st.score))
               THEN [column |-> col, score |-> rec.score, heap |-> kept]
               ELSE [column |-> st.column, score |-> st.score, heap |-> kept]
        RECURSIVE loop(_)
        \* the loop state after the first i columns of valid_locations
        loop(i) ==
            IF i = 0
            THEN [column |-> random_choice(valid_locations, seed),
                  score |-> IF maximizingPlayer THEN minus_math_inf ELSE math_inf,
                  heap |-> heap]
            ELSE \* the passes run in sequence: pass i starts from the state
                 \* s in which pass i - 1 ended
                 CHOOSE r \in {iteration(s, valid_locations[i]) : s \in {loop(i - 1)}} : TRUE
    IN IF depth = 0 \/ is_terminal
       THEN IF is_terminal
            THEN IF winning_move(heap[ref], AI_PIECE)
                 THEN [column |-> None, score |-> Num(10, 0), heap |-> heap]
                 ELSE IF winning_move(heap[ref], PLAYER_PIECE)
                 THEN [column |-> None, score |-> Num(-1, 0), heap |-> heap]
                 ELSE [column |-> None, score |-> Num(0, 0), heap |-> heap]
            ELSE [column |-> None, score |-> Num(0, score_position(heap[ref], AI_PIECE)),
                  heap |-> heap]
       ELSE loop(Len(valid_locations))

(***************************************************************************)
(* State.  board, game_over, turn, col, row and minimax_score are the      *)
(* locals of play_game; pc is the point the program has reached.  The      *)
(* specifications that apply minimax and winning_move to boards taken from *)
(* bounded sets use the same names for the board and the call's result     *)
(* (col, minimax_score), and keep beside them the call's arguments (call), *)
(* the board as the call left it (left) and winning_move's answers (won).  *)
(***************************************************************************)
VARIABLES board, game_over, turn, col, row, minimax_score, pc, call, left, won

vars == <<board, game_over, turn, col, row, minimax_score, pc, call, left, won>>

\* ---- inputs ------------------------------------------------------------

\* Two complete games the program plays to a full board with no four in a
\* row: the columns in the order they are played, first = the value of turn
\* that random.randint(0, 1) returned (0: the human moves first).
DrawGames ==
    { [first |-> 0,
       moves |-> <<3, 2, 1, 3, 3, 2, 3, 2, 2, 1, 6, 5, 3, 3, 5, 2, 6, 2, 6, 6, 6,
                   4, 4, 0, 0, 0, 5, 0, 5, 0, 0, 1, 1, 1, 1, 4, 6, 4, 4, 5, 4, 5>>],
      [first |-> 1,
       moves |-> <<3, 2, 2, 2, 3, 3, 2, 5, 5, 1, 3, 2, 3, 5, 5, 6, 3, 1, 1, 6, 1,
                   6, 6, 6, 2, 6, 0, 0, 5, 1, 1, 5, 4, 4, 4, 4, 0, 0, 0, 0, 4, 4>>] }

Cells == ROW_COUNT * COLUMN_COUNT

\* The human leaves the recorded games only once at most FreePlay cells are
\* empty; from there every column may be entered.
FreePlay == 4

\* The boards minimax is applied to have at most MaxEmpty empty cells.
MaxEmpty == 6

\* random.choice draws are 0 .. MaxSeed.
MaxSeed == 1

\* The runs painted on an empty board are 3 .. MaxRun cells long.
MaxRun == 4

Seeds == 0 .. MaxSeed

pieces(b, piece) == Cardinality({rc \in Rows \X Cols : b[rc[1]][rc[2]] = piece})

empties(b) == pieces(b, EMPTY)

\* What the human types: a line of text.  One character is enough to reach
\* every branch of the input handling.
Digits == <<"0", "1", "2", "3", "4", "5", "6", "7", "8", "9">>
Inputs == {"x"} \cup {Digits[i] : i \in DOMAIN Digits}

\* str.isnumeric() and int() on those lines
isnumeric(s) == \E i \in DOMAIN Digits : Digits[i] = s
int(s) == (CHOOSE i \in DOMAIN Digits : Digits[i] = s) - 1

\* The column the recorded games have the human play on board b (the human
\* is to move: it moved first iff both pieces are equally many).
scripted(b) ==
    LET n == pieces(b, PLAYER_PIECE)
        first == IF n = pieces(b, AI_PIECE) THEN 0 ELSE 1
        k == 2 * n + 1 + first
    IN {g.moves[k] : g \in {h \in DrawGames : h.first = first /\ k <= Cells}}

\* The valid columns the human enters on board b.
human_columns(b) ==
    {c \in Cols : is_valid_location(b, c)
                  /\ (c \in scripted(b) \/ empties(b) <= FreePlay)}

\* The board of game g after its first k moves.
RECURSIVE position(_, _)
position(g, k) ==
    IF k = 0 THEN create_board
    ELSE CHOOSE r \in
           {drop_piece(b, get_next_open_row(b, g.moves[k]), g.moves[k],
                       IF (g.first + k - 1) % 2 = 0 THEN PLAYER_PIECE ELSE AI_PIECE) :
              b \in {position(g, k - 1)}} : TRUE

\* ---- play_game ---------------------------------------------------------

Init ==
    /\ board = create_board
    /\ game_over = FALSE
    /\ turn \in {0, 1}
    /\ col = None /\ row = None /\ minimax_score = None
    /\ pc = "loop"
    /\ call = None /\ left = None /\ won = None

\* One pass of the while loop with turn = 0, the human having typed
\* user_input.
HumanTurn(user_input) ==
    /\ pc = "loop" /\ ~game_over /\ turn = 0
    /\ IF ~isnumeric(user_input)
       THEN \* "Please enter a valid number."; continue
            UNCHANGED <<board, game_over, turn, col, row>>
       ELSE IF int(user_input) < 0 \/ int(user_input) > COLUMN_COUNT - 1
       THEN \* "Invalid column number."; continue
            /\ col' = int(user_input)
            /\ UNCHANGED <<board, game_over, turn, row>>
       ELSE IF is_valid_location(board, int(user_input))
       THEN /\ int(user_input) \in human_columns(board)
            /\ col' = int(user_input)
            /\ row' = get_next_open_row(board, col')
            /\ board' = drop_piece(board, row', col', PLAYER_PIECE)
            /\ game_over' = (game_over \/ winning_move(board', PLAYER_PIECE))
            /\ turn' = (turn + 1) % 2
       ELSE \* "Column is full. Pick another one."
            /\ col' = int(user_input)
            /\ UNCHANGED <<board, game_over, turn, row>>
    /\ UNCHANGED <<minimax_score, pc, call, left, won>>

\* One pass of the while loop with turn = 1.  is_valid_location(board, None)
\* indexes a list with None: TypeError, which nothing catches.
AITurn(seed) ==
    /\ pc = "loop" /\ ~game_over /\ turn = 1
    /\ \E r \in {minimax(<<board>>, 1, SEARCH_DEPTH, TRUE, seed)} :
          /\ col' = r.column
          /\ minimax_score' = r.score
          /\ IF r.column = None
             THEN /\ pc' = "TypeError"
                  /\ board' = r.heap[1]
                  /\ UNCHANGED <<game_over, turn, row>>
             ELSE IF is_valid_location(r.heap[1], r.column)
             THEN /\ row' = get_next_open_row(r.heap[1], r.column)
                  /\ board' = drop_piece(r.heap[1], row', r.column, AI_PIECE)
                  /\ game_over' = (game_over \/ winning_move(board', AI_PIECE))
                  /\ turn' = (turn + 1) % 2
                  /\ pc' = pc
             ELSE /\ board' = r.heap[1]
                  /\ UNCHANGED <<game_over, turn, row, pc>>
    /\ UNCHANGED <<call, left, won>>

\* The while condition fails: print("Game Finished.")
LoopExit ==
    /\ pc = "loop" /\ game_over
    /\ pc' = "finished"
    /\ UNCHANGED <<board, game_over, turn, col, row, minimax_score, call, left, won>>

Next ==
    \/ \E user_input \in Inputs : HumanTurn(user_input)
    \/ \E seed \in Seeds : AITurn(seed)
    \/ LoopExit

Spec == Init /\ [][Next]_vars

\* ---- minimax applied to boards late in the recorded games ----------------

InitSearch ==
    /\ board \in {position(g, k) : g \in DrawGames, k \in (Cells - MaxEmpty) .. Cells}
    /\ game_over = FALSE /\ turn = 0
    /\ col = None /\ row = None /\ minimax_score = None
    /\ pc = "setup"
    /\ call = None /\ left = None /\ won = None

\* A move as the game loop makes it and as minimax simulates it:
\* get_next_open_row, then drop_piece, on a valid column.
Place(c, piece) ==
    /\ pc = "setup"
    /\ is_valid_location(board, c)
    /\ col' = c
    /\ row' = get_next_open_row(board, c)
    /\ board' = drop_piece(board, row', c, piece)
    /\ UNCHANGED <<game_over, turn, minimax_score, pc, call, left, won>>

\* col, minimax_score = minimax(board, depth, maximizingPlayer)
Search(depth, maximizingPlayer, seed) ==
    /\ pc = "setup"
    /\ \E r \in {minimax(<<board>>, 1, depth, maximizingPlayer, seed)} :
          /\ col' = r.column
          /\ minimax_score' = r.score
          /\ left' = r.heap[1]
    /\ call' = [depth |-> depth, maximizingPlayer |-> maximizingPlayer, seed |-> seed]
    /\ pc' = "returned"
    /\ UNCHANGED <<board, game_over, turn, row, won>>

NextSearch ==
    \/ \E c \in Cols, piece \in {PLAYER_PIECE, AI_PIECE} : Place(c, piece)
    \/ \E depth \in 0 .. SEARCH_DEPTH, maximizingPlayer \in BOOLEAN, seed \in Seeds :
          Search(depth, maximizingPlayer, seed)

SpecSearch == InitSearch /\ [][NextSearch]_vars

\* ---- winning_move applied to painted boards ----------------------------

\* (row step, column step) of the four directions of a line
Directions == {<<0, 1>>, <<1, 0>>, <<1, 1>>, <<-1, 1>>}

\* n cells of piece from (r0, c0) on in direction d, on an empty board; what
\* falls outside the board is cut off
run(r0, c0, d, n, piece) ==
    [r \in Rows |-> [c \in Cols |->
        IF \E k \in 0 .. (n - 1) : r = r0 + k * d[1] /\ c = c0 + k * d[2]
        THEN piece ELSE EMPTY]]

InitWin ==
    /\ board \in {run(r0, c0, d, n, piece) :
                    r0 \in Rows, c0 \in Cols, d \in Directions,
                    n \in 3 .. MaxRun, piece \in {PLAYER_PIECE, AI_PIECE}}
    /\ game_over = FALSE /\ turn = 0
    /\ col = None /\ row = None /\ minimax_score = None
    /\ pc = "painted"
    /\ call = None /\ left = None /\ won = None

\* One more cell written, anywhere: drop_piece checks neither bounds nor
\* occupancy, and winning_move does not require gravity.
Write(r, c, piece) ==
    /\ pc = "painted"
    /\ board' = drop_piece(board, r, c, piece)
    /\ row' = r /\ col' = c
    /\ pc' = "written"
    /\ UNCHANGED <<game_over, turn, minimax_score, call, left, won>>

Check ==
    /\ pc \in {"painted", "written"}
    /\ won' = [piece \in {PLAYER_PIECE, AI_PIECE} |-> winning_move(board, piece)]
    /\ pc' = "checked"
    /\ UNCHANGED <<board, game_over, turn, col, row, minimax_score, call, left>>

NextWin ==
    \/ \E r \in Rows, c \in Cols, piece \in {PLAYER_PIECE, AI_PIECE, EMPTY} : Write(r, c, piece)
    \/ Check

SpecWin == InitWin /\ [][NextWin]_vars

(***************************************************************************)
(* Properties.  The definitions below say what is expected of the program  *)
(* in terms of the board alone; none of them uses the program's own        *)
(* winning_move, is_terminal_node or comparisons.                          *)
(***************************************************************************)

\* 100000000000000 and -10000000000000
Score1e14 == Num(10, 0)
MinusScore1e13 == Num(-1, 0)

\* the negation of a score
Negated(a) == <<-a[1], -a[2], -a[3]>>

\* a < b on scores
Below(a, b) ==
    \/ a[1] < b[1]
    \/ a[1] = b[1] /\ a[2] < b[2]
    \/ a[1] = b[1] /\ a[2] = b[2] /\ a[3] < b[3]

\* The 4-cell lines of the board: four cells in a row, a column or a
\* diagonal of either slope, all on the board.
Lines ==
    {l \in {[d |-> d, cells |-> [i \in 1 .. 4 |-> <<r + (i - 1) * d[1], c + (i - 1) * d[2]>>]] :
              r \in Rows, c \in Cols, d \in Directions} :
       \A i \in 1 .. 4 : l.cells[i][1] \in Rows /\ l.cells[i][2] \in Cols}

HorizontalLines == {l \in Lines : l.d = <<0, 1>>}

at(b, cell) == b[cell[1]][cell[2]]

\* four cells holding piece are consecutive in some line
HasRun(b, piece) == \E l \in Lines : \A i \in 1 .. 4 : at(b, l.cells[i]) = piece

NoFour(b) == ~HasRun(b, PLAYER_PIECE) /\ ~HasRun(b, AI_PIECE)

ValidColumns(b) == {c \in Cols : b[ROW_COUNT - 1][c] = EMPTY}

\* (r, c) is the lowest empty cell of its column
Playable(b, r, c) == b[r][c] = EMPTY /\ \A q \in Rows : q < r => b[q][c] # EMPTY

\* The columns of the playable fourth cells of the lines of ls in which
\* piece holds the three other cells.
ThreatColumns(b, piece, ls) ==
    {c \in Cols : \E l \in ls, i \in 1 .. 4 :
        /\ l.cells[i][2] = c
        /\ Playable(b, l.cells[i][1], c)
        /\ \A j \in (1 .. 4) \ {i} : at(b, l.cells[j]) = piece}

Lowest(S) == CHOOSE x \in S : \A y \in S : x <= y

Rotate180(b) == [r \in Rows |-> [c \in Cols |-> b[ROW_COUNT - 1 - r][COLUMN_COUNT - 1 - c]]]

Contiguous(b) ==
    \A c \in Cols, r \in Rows : b[r][c] # EMPTY => \A q \in Rows : q < r => b[q][c] # EMPTY

Returned == pc = "returned"

\* The score minimax backs up for each valid column of the board of the
\* last call: the score of the call one level down on the board with the
\* mover's piece dropped in that column.
BackedUp ==
    LET valid == get_valid_locations(board)
    IN [i \in DOMAIN valid |->
          minimax(<<drop_piece(board, get_next_open_row(board, valid[i]), valid[i],
                               IF call.maximizingPlayer THEN AI_PIECE ELSE PLAYER_PIECE)>>,
                  1, call.depth - 1, ~call.maximizingPlayer, 0).score]

\* i is an index of a best backed-up score: none is greater when
\* maximizing, none is smaller when minimizing
IsBest(backed, i) ==
    \A j \in DOMAIN backed :
       IF call.maximizingPlayer THEN ~Below(backed[i], backed[j])
                                ELSE ~Below(backed[j], backed[i])

\* ---- C1 ----------------------------------------------------------------

\* C1 as stated: whenever the board has a valid column at entry minimax
\* returns one of the valid columns, and it returns None only when the
\* board has no valid column.
C1_AsStated ==
    Returned =>
       /\ ValidColumns(board) # {} => col \in ValidColumns(board)
       /\ col = None => ValidColumns(board) = {}

\* C1 amended: minimax returns None exactly when depth is 0, or a piece has
\* four in a row, or the board has no valid column; in every other call it
\* returns a valid column of the board passed in.
C1_ColumnOrNone ==
    Returned =>
       IF \/ call.depth = 0
          \/ HasRun(board, PLAYER_PIECE) \/ HasRun(board, AI_PIECE)
          \/ ValidColumns(board) = {}
       THEN col = None
       ELSE col \in ValidColumns(board)

C1_Witness ==
    /\ Returned /\ call.depth >= 1 /\ NoFour(board)
    /\ Cardinality(ValidColumns(board)) >= 2
    /\ col \in ValidColumns(board)

\* ---- C2 ----------------------------------------------------------------

C2_Case ==
    /\ Returned /\ call.maximizingPlayer /\ call.depth >= 1
    /\ NoFour(board)
    /\ ThreatColumns(board, AI_PIECE, HorizontalLines) # {}

\* C2 as stated: with three AI pieces in a horizontal window and the fourth
\* cell playable, and no four in a row yet, minimax maximizing at depth >= 1
\* returns the column of that fourth cell with score 100000000000000.
C2_AsStated ==
    C2_Case =>
       \A c \in ThreatColumns(board, AI_PIECE, HorizontalLines) :
          col = c /\ minimax_score = Score1e14

\* C2 amended: in that case minimax returns score 100000000000000 and a
\* valid column that is not above the lowest-index column completing a four
\* in a row for the AI; at depth 1 and 2 it is exactly that lowest-index
\* winning column.
C2_LowestWinningColumn ==
    C2_Case =>
       /\ minimax_score = Score1e14
       /\ col \in ValidColumns(board)
       /\ col <= Lowest(ThreatColumns(board, AI_PIECE, Lines))
       /\ call.depth <= 2 => col = Lowest(ThreatColumns(board, AI_PIECE, Lines))

C2_Witness ==
    /\ C2_Case
    /\ Cardinality(ThreatColumns(board, AI_PIECE, Lines)) >= 2
    /\ col = Lowest(ThreatColumns(board, AI_PIECE, Lines))
    /\ minimax_score = Score1e14

\* ---- C3 ----------------------------------------------------------------

C3_Case ==
    /\ Returned /\ call.maximizingPlayer /\ call.depth >= 2
    /\ NoFour(board)
    /\ ThreatColumns(board, PLAYER_PIECE, Lines) # {}
    /\ ThreatColumns(board, AI_PIECE, Lines) = {}

\* C3 as stated: with three human pieces in a line whose fourth cell is
\* playable, no four in a row yet and no immediate win for the AI, minimax
\* maximizing at depth >= 2 returns the column of that fourth cell.
C3_AsStated ==
    C3_Case => \A c \in ThreatColumns(board, PLAYER_PIECE, Lines) : col = c

\* C3 amended: in that case minimax returns the blocking column, which is
\* then the only threatened one, whenever its score is above
\* -10000000000000; when the score is -10000000000000 every column loses
\* within the depth and the lowest-index valid column is returned.
C3_BlocksUnlessLost ==
    C3_Case =>
       IF minimax_score = MinusScore1e13
       THEN col = Lowest(ValidColumns(board))
       ELSE ThreatColumns(board, PLAYER_PIECE, Lines) = {col}

C3_Witness ==
    /\ C3_Case
    /\ minimax_score # MinusScore1e13
    /\ ThreatColumns(board, PLAYER_PIECE, Lines) = {col}
    /\ col # Lowest(ValidColumns(board))

\* ---- C4 ----------------------------------------------------------------

\* C4: the AI turn never fails: either the board it searches has a valid
\* column or the None that comes back places nothing and raises nothing.
C4_NoFailure == pc # "TypeError"

\* ---- C5 ----------------------------------------------------------------

\* C5: on a terminal board minimax returns (None, 100000000000000) when the
\* AI has four in a row, (None, -100000000000000), the exact negation, when
\* the human has, and (None, 0) on a full board with no four in a row.
C5_TerminalScores ==
    Returned /\ (~NoFour(board) \/ ValidColumns(board) = {}) =>
       /\ col = None
       /\ minimax_score =
             IF HasRun(board, AI_PIECE) THEN Score1e14
             ELSE IF HasRun(board, PLAYER_PIECE) THEN Negated(Score1e14)
             ELSE Num(0, 0)

\* ---- C6 ----------------------------------------------------------------

C6_Case ==
    /\ Returned /\ call.depth >= 1
    /\ NoFour(board) /\ ValidColumns(board) # {}

\* C6: on a non-terminal board at depth >= 1 minimax returns the best
\* backed-up score and the lowest-index valid column that has it, whatever
\* random.choice drew.
C6_LowestBestColumn ==
    C6_Case =>
       \E i \in DOMAIN BackedUp :
          /\ IsBest(BackedUp, i)
          /\ \A j \in DOMAIN BackedUp : j < i => ~IsBest(BackedUp, j)
          /\ col = get_valid_locations(board)[i]
          /\ minimax_score = BackedUp[i]

\* two columns tie for the best score and random.choice drew another column
\* than the one returned
C6_Witness ==
    /\ C6_Case
    /\ \E i, j \in DOMAIN BackedUp : i # j /\ IsBest(BackedUp, i) /\ IsBest(BackedUp, j)
    /\ random_choice(get_valid_locations(board), call.seed) # col

\* ---- C7 ----------------------------------------------------------------

\* C7: every column's occupied cells are contiguous from row 0 upward, and
\* the cell a drop has just written is the top of its column, resting on
\* row 0 or on an occupied cell: the drop went to the lowest empty row.
C7_Gravity ==
    /\ Contiguous(board)
    /\ pc = "setup" /\ row # None =>
          /\ board[row][col] # EMPTY
          /\ \A q \in Rows : q > row => board[q][col] = EMPTY
          /\ \A q \in Rows : q < row => board[q][col] # EMPTY

C7_Witness ==
    /\ pc = "setup" /\ row = ROW_COUNT - 1
    /\ board[row][col] # EMPTY
    /\ \E c \in Cols : board[ROW_COUNT - 2][c] = EMPTY /\ board[0][c] # EMPTY

\* ---- C8 ----------------------------------------------------------------

\* C8: winning_move(board, piece) is true exactly when four cells holding
\* piece are consecutive in a row, a column or a diagonal of either slope,
\* and it gives the same answer on the board rotated by 180 degrees.
C8_RunOfFour ==
    pc = "checked" =>
       \A piece \in {PLAYER_PIECE, AI_PIECE} :
          /\ won[piece] = HasRun(board, piece)
          /\ winning_move(Rotate180(board), piece) = won[piece]

C8_Witness ==
    /\ pc = "checked"
    /\ won[PLAYER_PIECE] /\ ~won[AI_PIECE]
    /\ board[ROW_COUNT - 1][COLUMN_COUNT - 1] = PLAYER_PIECE
    /\ board[ROW_COUNT - 4][COLUMN_COUNT - 4] = PLAYER_PIECE

\* ---- C9 ----------------------------------------------------------------

\* C9: the board handed to minimax is, when the call returns, cell for cell
\* the board that was handed in.  Simulated drops only ever fill empty
\* cells, so a drop written to the caller's board at any level would still
\* be there.
C9_BoardUnchanged == Returned => left = board

C9_Witness ==
    /\ Returned /\ call.depth = SEARCH_DEPTH /\ col # None
    /\ Cardinality(ValidColumns(board)) >= 2
    /\ left = board

\* ---- C10 ---------------------------------------------------------------

\* C10: every run of play_game reaches "Game Finished.", a drawn game
\* included.  A run gets there only through states in which the loop can
\* still place a piece or is about to exit: in every state the program
\* has printed "Game Finished.", or it is in the loop with game_over set
\* or with a column that is not full.  (On a full board with game_over
\* unset the human's every input is turned down and the AI turn raises:
\* no run from there sets game_over.)
C10_GameFinishes ==
    \/ pc = "finished"
    \/ pc = "loop" /\ (game_over \/ ValidColumns(board) # {})

\* ---- the model against the recorded games --------------------------------

\* While the human follows the recorded games the boards of play_game are
\* the boards of those games: minimax in the model answers as the program
\* did.
OnRecord ==
    pc = "loop" /\ empties(board) > FreePlay =>
       \E g \in DrawGames, k \in 0 .. Cells : board = position(g, k)
====
